---- MODULE Spec2Model ----
(***************************************************************************)
(* deduper/dedup.py: one run of main() after another against one Drive     *)
(* account.  A run fetches the untrashed files that carry an md5Checksum,  *)
(* groups them by checksum, reports the groups and the reclaimable bytes,  *)
(* asks for confirmation and trashes every member but the first of every   *)
(* group, in batches of at most BatchMax requests.                         *)
(*                                                                         *)
(* Strings the code inspects character by character (the answer to the     *)
(* prompt, quotaBytesUsed) are sequences of one-character strings.         *)
(***************************************************************************)
EXTENDS Integers, Sequences, FiniteSets, TLC

VARIABLES
  account,        \* the Drive account: the files in listing order
  failing,        \* ids whose trash operation the service rejects
  pc,             \* position of main(): start, prompt, loop, flush, final, done, crashed
  files,          \* main: files
  dupes,          \* main: dupes
  total,          \* main: total
  conf,           \* main: conf, the answer read by raw_input
  ds, dp,         \* the positions of the two for loops of lines 114-115
  batch,          \* batch._order of the current BatchHttpRequest: the file ids added
  out,            \* what the run has printed, in order
  executed,       \* the batch.execute() calls of the run: the requests, raised or not
  fps0,           \* history: checksums with an untrashed file before the first run
  trashedAtFetch, \* history: ids trashed when the run started and fetched its listing
  prevClean       \* history: the previous run was confirmed and all its removals succeeded

vars == <<account, failing, pc, files, dupes, total, conf, ds, dp, batch,
          out, executed, fps0, trashedAtFetch, prevClean>>

\* ---------------------------------------------------------------- bounds
MaxFiles == 5      \* files of an account
MaxFailing == 1    \* files whose trash operation fails
\* the size at which a batch is executed: 1000 at dedup.py:117 ("batch maxes out
\* at 1k"), scaled so that the accounts fill a batch exactly, overflow it and
\* fill it twice
BatchMax == 2
\* maxResults of files().list: 100 at dedup.py:66, scaled so that the listing
\* takes one page, two pages and three
MaxResults == 2

\* --------------------------------------------------------------- helpers
Min(a, b) == IF a < b THEN a ELSE b

Range(s) == {s[i] : i \in DOMAIN s}

\* all orders in which the elements of the finite set S can be enumerated
Perms(S) == {p \in [1..Cardinality(S) -> S] : \A x \in S : \E i \in DOMAIN p : p[i] = x}

\* the key md5Checksum is absent from the item
NoMd5 == "absent"
Md5s == {"a", "b"}

\* quotaBytesUsed as the API sends it, a decimal string: file i uses 10^(i-1)
\* bytes, so that a sum tells which files it counts
QuotaOf(i) == <<"1">> \o [j \in 1..(i - 1) |-> "0"]

Digit == [c \in {"0", "1", "2", "3", "4", "5", "6", "7", "8", "9"} |->
            CASE c = "0" -> 0 [] c = "1" -> 1 [] c = "2" -> 2 [] c = "3" -> 3
              [] c = "4" -> 4 [] c = "5" -> 5 [] c = "6" -> 6 [] c = "7" -> 7
              [] c = "8" -> 8 [] c = "9" -> 9]

\* int(s) of a decimal string
RECURSIVE int(_)
int(s) == IF Len(s) = 0 THEN 0
          ELSE int(SubSeq(s, 1, Len(s) - 1)) * 10 + Digit[s[Len(s)]]

Whitespace == {" ", "\t", "\n", "\r"}

\* str.strip(): whitespace removed from both ends
RECURSIVE lstrip(_)
lstrip(s) == IF Len(s) > 0 /\ s[1] \in Whitespace THEN lstrip(Tail(s)) ELSE s

RECURSIVE rstrip(_)
rstrip(s) == IF Len(s) > 0 /\ s[Len(s)] \in Whitespace
             THEN rstrip(SubSeq(s, 1, Len(s) - 1)) ELSE s

strip(s) == rstrip(lstrip(s))

\* what the user may type at the prompt
Answers == {<<"y">>, <<" ", "y", "\n">>, <<"n">>, <<"Y">>, <<"y", "e", "s">>, <<>>}

\* ------------------------------------------------------------ the account
FileOf(i, m, q) == [id |-> i, md5Checksum |-> m, quotaBytesUsed |-> q, trashed |-> FALSE]

\* every account of at most MaxFiles files; the id of a file is unique
Accounts ==
  UNION {{[i \in 1..n |-> FileOf(i, m[i], QuotaOf(i))] : m \in [1..n -> Md5s \cup {NoMd5}]} :
           n \in 0..MaxFiles}

\* ------------------------------------------------------ fetch_all_metadata
\* the fields the request asks for
Item(f) == [id |-> f.id, md5Checksum |-> f.md5Checksum, quotaBytesUsed |-> f.quotaBytesUsed]

\* the query without trashed=false: every file is listed
ListingAll(acc) == acc

\* q='trashed=false': the files the service lists
Listing(acc) == SelectSeq(acc, LAMBDA f : ~f.trashed)

\* files().list(pageToken, maxResults).execute(): one page, and the token of the
\* next page when there is one (pageToken None is offset 0)
ListPage(listing, offset) ==
  LET last == Min(offset + MaxResults, Len(listing))
      items == [i \in 1..(last - offset) |-> Item(listing[offset + i])]
  IN IF last < Len(listing)
     THEN [items |-> items, nextPageToken |-> last]
     ELSE [items |-> items]

HasMd5(item) == item.md5Checksum # NoMd5

\* the while loop of lines 65-75: the results and the 'Fetched' lines
RECURSIVE FetchLoop(_, _, _, _)
FetchLoop(listing, offset, results, printed) ==
  LET resp == ListPage(listing, offset)
      ended == "nextPageToken" \notin DOMAIN resp
      res2 == results \o SelectSeq(resp.items, HasMd5)
      pr2 == Append(printed, [ev |-> "fetched", n |-> Len(res2)])
  IN IF ended THEN [results |-> res2, printed |-> pr2]
     ELSE FetchLoop(listing, resp.nextPageToken, res2, pr2)

fetch_all_metadata(acc) == FetchLoop(Listing(acc), 0, <<>>, <<>>)

\* ---------------------------------------------------------------- find_dupes
\* lines 81-84: index after the first n files; index[k] of a key not yet in the
\* defaultdict is the empty list
RECURSIVE BuildIndex(_, _)
BuildIndex(fs, n) ==
  IF n = 0 THEN <<>>
  ELSE LET index == BuildIndex(fs, n - 1)
           f == fs[n]
           k == f.md5Checksum
       IN IF k \in DOMAIN index
          THEN [index EXCEPT ![k] = Append(@, f)]
          ELSE [x \in DOMAIN index \cup {k} |-> IF x = k THEN <<f>> ELSE index[x]]

\* a group of one file taken for a duplicate set
IsDupeOfOne(v) == Len(v) > 0

\* a group is a duplicate set
IsDupe(v) == Len(v) > 1

\* lines 85-87: the groups of more than one file, in the order index.items() yields
RECURSIVE SelectDupes(_, _, _)
SelectDupes(index, order, n) ==
  IF n = 0 THEN <<>>
  ELSE LET rest == SelectDupes(index, order, n - 1)
           v == index[order[n]]
       IN IF IsDupe(v) THEN Append(rest, v) ELSE rest

\* find_dupes(files), index.items() enumerating the keys in `order`
find_dupes(fs, order) == SelectDupes(BuildIndex(fs, Len(fs)), order, Len(order))

\* the orders index.items() may take: a dict does not order its keys
ItemOrders(fs) == Perms(DOMAIN BuildIndex(fs, Len(fs)))

\* ------------------------------------------------------------------ main
\* dupeset[1:]
Extras(dupeset) == Tail(dupeset)

\* lines 106-107: total after the first n members of dupeset[1:]
RECURSIVE SumSizes(_, _, _)
SumSizes(t, extras, n) ==
  IF n = 0 THEN t
  ELSE SumSizes(t, extras, n - 1) + int(extras[n].quotaBytesUsed)

\* lines 101-107: total after the first n duplicate sets
RECURSIVE Total(_, _)
Total(d, n) ==
  IF n = 0 THEN 0
  ELSE SumSizes(Total(d, n - 1), Extras(d[n]), Len(Extras(d[n])))

\* the test of line 97 never true
NoDupesNever(d) == Len(d) < 0

\* line 97
NoDupes(d) == Len(d) = 0

\* lines 96-109: what main prints before the prompt
Report(d, t) ==
  <<[ev |-> "found", n |-> Len(d)], [ev |-> "check", n |-> 0]>>
  \o [i \in 1..Len(d) |-> [ev |-> "set", n |-> i]]
  \o <<[ev |-> "wasted", n |-> t]>>

\* every answer but 'n' taken for a yes
ConfirmedUnlessN(c) == strip(c) # <<"n">>

\* line 111
Confirmed(c) == strip(c) = <<"y">>

\* the batch executed one request late
BatchFullLate(b) == Len(b) = BatchMax + 1

\* line 117
BatchFull(b) == Len(b) = BatchMax

Ev(e) == [ev |-> e, n |-> 0]

\* the ids whose trash operation fails: at most MaxFailing files of the account
FailSets(acc) ==
  {S \in SUBSET {acc[i].id : i \in DOMAIN acc} : Cardinality(S) <= MaxFailing}

\* the checksums that have an untrashed file
LiveFps(acc) == {acc[i].md5Checksum : i \in {j \in DOMAIN acc : ~acc[j].trashed}} \ {NoMd5}

TrashedIds(acc) == {acc[i].id : i \in {j \in DOMAIN acc : acc[j].trashed}}

Init ==
  /\ account \in Accounts
  /\ failing \in FailSets(account)
  /\ pc = "start"
  /\ files = <<>>
  /\ dupes = <<>>
  /\ total = 0
  /\ conf = <<>>
  /\ ds = 1
  /\ dp = 2
  /\ batch = <<>>
  /\ out = <<>>
  /\ executed = <<>>
  /\ fps0 = LiveFps(account)
  /\ trashedAtFetch = {}
  /\ prevClean = FALSE

\* lines 93-109: fetch, find the duplicates, report
Start ==
  /\ pc = "start"
  /\ LET fetched == fetch_all_metadata(account)
         fs == fetched.results
     IN \E order \in ItemOrders(fs) :
          LET d == find_dupes(fs, order)
              t == Total(d, Len(d))
          IN /\ files' = fs
             /\ dupes' = d
             /\ IF NoDupes(d)
                THEN /\ out' = fetched.printed
                               \o <<[ev |-> "found", n |-> Len(d)], Ev("done")>>
                     /\ pc' = "done"
                     /\ total' = total
                ELSE /\ out' = fetched.printed \o Report(d, t)
                     /\ pc' = "prompt"
                     /\ total' = t
  /\ trashedAtFetch' = TrashedIds(account)
  /\ UNCHANGED <<account, failing, conf, ds, dp, batch, executed, fps0, prevClean>>

\* lines 110-113 and 122-123: the prompt and its answer
Prompt ==
  /\ pc = "prompt"
  /\ \E a \in Answers :
       /\ conf' = a
       /\ IF Confirmed(a)
          THEN /\ out' = out \o <<Ev("prompt"), Ev("trashing")>>
               /\ pc' = "loop"
          ELSE /\ out' = out \o <<Ev("prompt"), Ev("untouched")>>
               /\ pc' = "done"
  /\ batch' = <<>>
  /\ ds' = 1
  /\ dp' = 2
  /\ UNCHANGED <<account, failing, files, dupes, total, executed, fps0,
                 trashedAtFetch, prevClean>>

\* the loops of lines 114-115 have further members to visit
MoreAfter(d, i, j) == j < Len(d[i]) \/ i < Len(d)

\* lines 114-117: batch.add for the next extra, and the test of the batch size
Add ==
  /\ pc = "loop"
  /\ batch' = Append(batch, dupes[ds][dp].id)
  /\ IF dp < Len(dupes[ds])
     THEN ds' = ds /\ dp' = dp + 1
     ELSE ds' = ds + 1 /\ dp' = 2
  /\ pc' = IF BatchFull(batch') THEN "flush"
           ELSE IF MoreAfter(dupes, ds, dp) THEN "loop" ELSE "final"
  /\ UNCHANGED <<account, failing, files, dupes, total, conf, out, executed,
                 fps0, trashedAtFetch, prevClean>>

\* batch.execute() served: every request runs on its own, no callback is
\* registered, so a failed request leaves no trace in the program
Served(acc, b) ==
  LET ok == Range(b) \ failing
  IN [i \in DOMAIN acc |->
        IF acc[i].id \in ok THEN [acc[i] EXCEPT !.trashed = TRUE] ELSE acc[i]]

\* lines 118-119: the full batch is executed and a new one started
FlushOk ==
  /\ pc = "flush"
  /\ account' = Served(account, batch)
  /\ executed' = Append(executed, [reqs |-> batch, raised |-> FALSE])
  /\ batch' = <<>>
  /\ pc' = IF ds <= Len(dupes) THEN "loop" ELSE "final"
  /\ UNCHANGED <<failing, files, dupes, total, conf, ds, dp, out, fps0,
                 trashedAtFetch, prevClean>>

\* line 118: batch.execute() raises (the call does not reach the service);
\* nothing catches it and main ends with a traceback
FlushRaise ==
  /\ pc = "flush"
  /\ executed' = Append(executed, [reqs |-> batch, raised |-> TRUE])
  /\ out' = Append(out, Ev("traceback"))
  /\ pc' = "crashed"
  /\ UNCHANGED <<account, failing, files, dupes, total, conf, ds, dp, batch,
                 fps0, trashedAtFetch, prevClean>>

\* lines 120-121: the batch left after the loops is executed, whatever it holds
FinalOk ==
  /\ pc = "final"
  /\ account' = Served(account, batch)
  /\ executed' = Append(executed, [reqs |-> batch, raised |-> FALSE])
  /\ out' = Append(out, Ev("done_trash"))
  /\ pc' = "done"
  /\ UNCHANGED <<failing, files, dupes, total, conf, ds, dp, batch, fps0,
                 trashedAtFetch, prevClean>>

\* line 120: batch.execute() raises
FinalRaise ==
  /\ pc = "final"
  /\ executed' = Append(executed, [reqs |-> batch, raised |-> TRUE])
  /\ out' = Append(out, Ev("traceback"))
  /\ pc' = "crashed"
  /\ UNCHANGED <<account, failing, files, dupes, total, conf, ds, dp, batch,
                 fps0, trashedAtFetch, prevClean>>

Terminated == pc \in {"done", "crashed"}

\* the records the trash loop is to visit: every member but the first of every set
RECURSIVE AllExtras(_, _)
AllExtras(d, n) == IF n = 0 THEN <<>> ELSE AllExtras(d, n - 1) \o Extras(d[n])

ExtraIds(d) == {AllExtras(d, Len(d))[i].id : i \in 1..Len(AllExtras(d, Len(d)))}

\* the run was confirmed and every one of its removals took effect
RunClean ==
  /\ Confirmed(conf)
  /\ ExtraIds(dupes) \subseteq TrashedIds(account)

\* lines 126-127: the script is started again
Rerun ==
  /\ Terminated
  /\ prevClean' = RunClean
  /\ pc' = "start"
  /\ files' = <<>>
  /\ dupes' = <<>>
  /\ total' = 0
  /\ conf' = <<>>
  /\ ds' = 1
  /\ dp' = 2
  /\ batch' = <<>>
  /\ out' = <<>>
  /\ executed' = <<>>
  /\ trashedAtFetch' = TrashedIds(account)
  /\ UNCHANGED <<account, failing, fps0>>

Next ==
  \/ Start
  \/ Prompt
  \/ Add
  \/ FlushOk
  \/ FlushRaise
  \/ FinalOk
  \/ FinalRaise
  \/ Rerun

Spec == Init /\ [][Next]_vars

\* ================================================================ claims
\* the answers that are 'y' once the whitespace around them is dropped
YesAnswers == {a \in Answers : SelectSeq(a, LAMBDA c : c \notin Whitespace) = <<"y">>}

\* the run was answered 'y'
Answered == \E i \in DOMAIN out : out[i].ev = "prompt"
SaidYes == Answered /\ conf \in YesAnswers

\* the requests of every batch.execute() call of the run, in order
RECURSIVE Requests(_)
Requests(n) == IF n = 0 THEN <<>> ELSE Requests(n - 1) \o executed[n].reqs

\* how many trash requests in executed batches target the file id
ReqCount(id) ==
  LET reqs == Requests(Len(executed))
  IN Cardinality({p \in DOMAIN reqs : reqs[p] = id})

\* the ids a trash request was added for, executed yet or not
Requested == Range(Requests(Len(executed))) \cup Range(batch)

\* the number of removable files of the run
NumExtras == Len(AllExtras(dupes, Len(dupes)))

CeilDiv(a, b) == (a + b - 1) \div b

PromptCount == Cardinality({i \in DOMAIN out : out[i].ev = "prompt"})

\* the files of checksum k, in the order of files
FilesWith(k) == SelectSeq(files, LAMBDA f : f.md5Checksum = k)

\* C1: when a run confirmed with 'y' has ended, every member but the first of
\* every duplicate set is the target of exactly one trash request of an executed
\* batch, and the first member of no set is the target of any.
C1_EveryExtraRequestedOnce ==
  (Terminated /\ SaidYes) =>
     \A i \in DOMAIN dupes :
        /\ ReqCount(dupes[i][1].id) = 0
        /\ \A j \in 2..Len(dupes[i]) : ReqCount(dupes[i][j].id) = 1

\* C2: a confirmed run that reaches its end has executed ceil(k / BatchMax)
\* batches for its k removable files, none of them empty.
C2_CeilBatchExecutions ==
  (pc = "done" /\ SaidYes) =>
     /\ Len(executed) = CeilDiv(NumExtras, BatchMax)
     /\ \A i \in DOMAIN executed : executed[i].reqs # <<>>

\* C3: the batch never holds more than BatchMax requests; a batch that has
\* reached BatchMax is executed in the very next step and, unless the call
\* raises, replaced by an empty batch; no request is added to a full batch.
C3_BatchWithinCeiling ==
  [][/\ Len(batch') <= BatchMax
     /\ (Len(batch) = BatchMax /\ ~Terminated) =>
           /\ Len(executed') = Len(executed) + 1
           /\ executed'[Len(executed')].reqs = batch
           /\ (batch' = <<>> \/ pc' = "crashed")
     /\ Len(batch') > Len(batch) => Len(batch) < BatchMax]_vars

\* C3 witness: a full batch was executed and a request added to the fresh batch
C3_Witness ==
  /\ Len(executed) = 1
  /\ Len(executed[1].reqs) = BatchMax
  /\ ~executed[1].raised
  /\ Len(batch) = 1

\* the position of the first event e in out, Len(out) + 1 when there is none
FirstPos(e) ==
  IF \E i \in DOMAIN out : out[i].ev = e
  THEN CHOOSE i \in DOMAIN out : out[i].ev = e /\ \A j \in 1..(i - 1) : out[j].ev # e
  ELSE Len(out) + 1

\* every duplicate set and the total are printed, and before the prompt
ReportedBeforePrompt ==
  /\ \A g \in DOMAIN dupes :
        \E i \in 1..(FirstPos("prompt") - 1) : out[i].ev = "set" /\ out[i].n = g
  /\ \E i \in 1..(FirstPos("prompt") - 1) : out[i].ev = "wasted" /\ out[i].n = total

\* no trash request was added and no batch executed
NothingIssued ==
  /\ batch = <<>>
  /\ executed = <<>>
  /\ TrashedIds(account) = trashedAtFetch

\* the parts of C4 that do not count the prompts
ReportConfirmRemove ==
  /\ (pc = "prompt" \/ Answered) => ReportedBeforePrompt
  /\ ~SaidYes => NothingIssued

\* C4 as stated: report, then confirm, then remove, and every run prompts
\* exactly once.
C4_PromptExactlyOnce ==
  /\ ReportConfirmRemove
  /\ Terminated => PromptCount = 1

\* C4 amended: report, then confirm, then remove; a run that finds a duplicate
\* set prompts exactly once and a run that finds none does not prompt.
C4_ReportConfirmRemove ==
  /\ ReportConfirmRemove
  /\ PromptCount <= 1
  /\ Terminated => PromptCount = (IF dupes # <<>> THEN 1 ELSE 0)

\* C4 witness: a run that was confirmed and has executed a batch
C4_Witness == pc = "done" /\ SaidYes /\ executed # <<>> /\ TrashedIds(account) # trashedAtFetch

\* C5: a batch.execute() that raises does not end the run: the run reaches its
\* final report and every removable file was requested in an executed batch.
C5_TransportFailureConfined ==
  (Terminated /\ \E i \in DOMAIN executed : executed[i].raised) =>
     /\ pc = "done"
     /\ out[Len(out)].ev = "done_trash"
     /\ ExtraIds(dupes) \subseteq Range(Requests(Len(executed)))

\* the ids whose trash operation was served and failed
FailedOps ==
  {id \in failing : \E i \in DOMAIN executed :
                      ~executed[i].raised /\ id \in Range(executed[i].reqs)}

\* the ids whose trash operation was served and succeeded
SucceededOps ==
  UNION {Range(executed[i].reqs) \ failing : i \in {j \in DOMAIN executed : ~executed[j].raised}}

\* C6: when a trash operation of a served batch has failed, the other
\* operations of the batch have taken effect, the later batches were executed,
\* and the ended run has printed how many removals succeeded and how many failed.
C6_PartialFailureReported ==
  (pc = "done" /\ FailedOps # {}) =>
     /\ SucceededOps \subseteq TrashedIds(account)
     /\ ExtraIds(dupes) \subseteq Range(Requests(Len(executed)))
     /\ \E i \in DOMAIN out : out[i].ev = "succeeded" /\ out[i].n = Cardinality(SucceededOps)
     /\ \E i \in DOMAIN out : out[i].ev = "failed" /\ out[i].n = Cardinality(FailedOps)

\* C7: find_dupes returns one group for every checksum that two or more files
\* carry and no other group; a group is the files of its checksum, each once,
\* in the order of files.
C7_FindDupesGroups ==
  /\ \A k \in {files[i].md5Checksum : i \in DOMAIN files} :
        Cardinality({g \in DOMAIN dupes : dupes[g][1].md5Checksum = k})
          = (IF Len(FilesWith(k)) >= 2 THEN 1 ELSE 0)
  /\ \A g \in DOMAIN dupes :
        /\ Len(dupes[g]) >= 2
        /\ dupes[g] = FilesWith(dupes[g][1].md5Checksum)

\* C7 witness: a duplicate set of three files that are not neighbours in files,
\* and a file whose checksum is unique
C7_Witness ==
  /\ pc = "prompt"
  /\ Len(dupes) = 1
  /\ Len(dupes[1]) = 3
  /\ dupes[1][3].id > dupes[1][1].id + 2
  /\ \E i \in DOMAIN files : Len(FilesWith(files[i].md5Checksum)) = 1

\* the files a set of positions <<set, member>> of dupes names
MemberAt(p) == dupes[p[1]][p[2]]

\* the sum of the sizes of the members at the positions P
RECURSIVE SizeSum(_)
SizeSum(P) ==
  IF P = {} THEN 0
  ELSE LET p == CHOOSE x \in P : TRUE
       IN int(MemberAt(p).quotaBytesUsed) + SizeSum(P \ {p})

\* the positions of dupes past the first member of each set
ExtraPositions == {p \in (DOMAIN dupes) \X (2..MaxFiles) : p[2] <= Len(dupes[p[1]])}

\* C8: the total is the sum of int(quotaBytesUsed) over every member but the
\* first of every duplicate set, and when a confirmed run has ended the files
\* counted are exactly the files a trash request was issued for.
C8_TotalCountsTheExtras ==
  /\ (pc # "start" /\ dupes # <<>>) => total = SizeSum(ExtraPositions)
  /\ (Terminated /\ SaidYes) =>
        Requested = {MemberAt(p).id : p \in ExtraPositions}

\* no two fetched files share a checksum
NoSharedChecksum ==
  \A i, j \in DOMAIN files : i # j => files[i].md5Checksum # files[j].md5Checksum

\* C9: a run whose files share no checksum prints that 0 duplicates were found
\* and ends; it does not prompt, creates and executes no batch and trashes
\* nothing.
C9_NoDuplicatesNoRemediation ==
  (pc # "start" /\ NoSharedChecksum) =>
     /\ pc = "done"
     /\ dupes = <<>>
     /\ Len(out) >= 2
     /\ out[Len(out) - 1] = [ev |-> "found", n |-> 0]
     /\ out[Len(out)].ev = "done"
     /\ PromptCount = 0
     /\ NothingIssued

\* C9 witness: a run over two or more files of different checksums has ended
C9_Witness == pc = "done" /\ Len(files) >= 2 /\ NoSharedChecksum

\* C10: over consecutive runs, every checksum that had an untrashed file before
\* the first run keeps one; no trash request targets a file that was trashed
\* when the run fetched; the run after a confirmed run whose removals all
\* succeeded finds no duplicate set.
C10_RerunsAreSafe ==
  /\ \A k \in fps0 :
        \E i \in DOMAIN account : account[i].md5Checksum = k /\ ~account[i].trashed
  /\ \A id \in trashedAtFetch : id \notin Requested
  /\ prevClean => dupes = <<>>

\* C10 witness: the run after a clean run has found nothing, with trashed files
\* in the account and a checksum that had duplicates
C10_Witness ==
  /\ prevClean
  /\ pc = "done"
  /\ trashedAtFetch # {}
  /\ Len(files) >= 1

\* ------------------------------------------- what the code does instead
\* of C1: no first member is ever requested and no file twice; a confirmed run
\* in which no execute raises has requested every other member once
ExtrasRequestedOnceUnlessRaised ==
  /\ \A i \in DOMAIN dupes :
        /\ ReqCount(dupes[i][1].id) = 0
        /\ \A j \in 2..Len(dupes[i]) : ReqCount(dupes[i][j].id) <= 1
  /\ (pc = "done" /\ SaidYes) =>
        \A i \in DOMAIN dupes : \A j \in 2..Len(dupes[i]) : ReqCount(dupes[i][j].id) = 1

\* of C2: a confirmed run that reaches its end has called execute once for
\* every full batch and once more, on a batch of fewer than BatchMax requests
ExecutesFloorPlusOne ==
  (pc = "done" /\ SaidYes) =>
     /\ Len(executed) = (NumExtras \div BatchMax) + 1
     /\ Len(executed[Len(executed)].reqs) = NumExtras % BatchMax

\* of C5: a run ends crashed exactly when its last execute raised
CrashedIffRaised ==
  pc = "crashed" <=> (executed # <<>> /\ executed[Len(executed)].raised)

\* of C6: the operations that did not fail took effect, and nothing is printed
\* after the report but the prompt and one closing line
SiblingsServedNoCounts ==
  /\ SucceededOps \subseteq TrashedIds(account)
  /\ \A i \in DOMAIN out :
        out[i].ev \in {"fetched", "found", "check", "set", "wasted", "prompt",
                       "trashing", "untouched", "done", "done_trash", "traceback"}

\* of C8: the total is the sum over the members past the first of every set,
\* and the files requested are among the files counted
TotalIsSumOfExtras ==
  /\ (pc # "start" /\ dupes # <<>>) => total = SizeSum(ExtraPositions)
  /\ Requested \subseteq {MemberAt(p).id : p \in ExtraPositions}
  /\ (pc = "done" /\ SaidYes) => Requested = {MemberAt(p).id : p \in ExtraPositions}

====
